---- MODULE Spec2Model ----
(***************************************************************************)
(* Model of train.py: the torchnet Engine training loop with the hooks     *)
(* on_sample, on_forward, on_start_epoch and on_end_epoch, the three       *)
(* meters, the best-accuracy checkpoint, the ReduceLROnPlateau scheduler   *)
(* and the per-epoch statistics file.                                      *)
(*                                                                         *)
(* Numbers that are floats in the program (mean loss, accuracy in percent, *)
(* learning rate) are exact fractions [num, den] here; 1/0 is +inf and 0/0 *)
(* is nan.                                                                  *)
(*                                                                         *)
(* Spec and LiveSpec are the run from the entry of engine.train on.        *)
(* StartupSpec starts before the devices are looked at.  SchedSpec is a    *)
(* long run whose validation loss changes at most once.  TwinSpec runs the *)
(* script twice in step, on the same training and validation batches and   *)
(* on test batches that may differ.                                        *)
(***************************************************************************)
EXTENDS Integers, Sequences, FiniteSets

\* ---------------------------------------------------------------- bounds
\* largest --num_epochs value explored
MaxEpochs == 2
\* largest number of batches the train / val / test loader yields
MaxTrainBatches == 2
MaxValBatches == 1
MaxTestBatches == 1

\* ---------------------------------------------------- program constants
\* examples per batch (--batch_size)
BATCH_SIZE == 2
\* ReduceLROnPlateau(optimizer, factor=0.1): lr is multiplied by 1/FactorDen
FactorDen == 10
\* Adam(lr=1e-4): the initial learning rate is 1/LrInitDen
LrInitDen == 10000
\* ReduceLROnPlateau defaults: patience=10, threshold=1e-4 (rel), eps=1e-8
Patience == 10
ThresholdDen == 10000
EpsDen == 100000000
\* the checkpoint file while torch.save has not been called
NoCheckpoint == << >>
\* ClassErrorMeter(topk=[1, 5]): the largest k the accuracy meter asks for
TopK == 5
\* no exception has been raised
NoError == "none"
\* --gpu_ids default '0,1'
DefaultDeviceIds == << 0, 1 >>
\* numbers of classes explored: a two-class toy dataset and ucf101
ClassCounts == { 2, 101 }

\* ------------------------------------------------------------- fractions
Rat(n, d) == [num |-> n, den |-> d]
Inf == Rat(1, 0)
NaN == Rat(0, 0)
IsNaN(a) == a.num = 0 /\ a.den = 0
\* a < b on fractions with non-negative denominators (false when one is nan)
RatLT(a, b) == a.num * b.den < b.num * a.den
\* a == b as floats compare: nan equals nothing, itself included
RatEq(a, b) ==
    /\ ~IsNaN(a) /\ ~IsNaN(b)
    /\ a.num * b.den = b.num * a.den
    /\ (a.den = 0) = (b.den = 0)
RatMax(a, b) == IF RatLT(a, b) THEN b ELSE a

\* ------------------------------------------------------------ batch data
\* What the forward pass of one batch yields: the cross-entropy loss and, of
\* the BATCH_SIZE examples, how many miss the top-1 and how many miss the
\* top-5 prediction (a top-5 miss is a top-1 miss).
Outcome(e1, e5) == [loss |-> 1 + e1 + e5, err1 |-> e1, err5 |-> e5]
\* Two kinds of batch are drawn: one the model classifies entirely right, and
\* one where every example misses the top-1 prediction and half of the
\* examples also miss the top five.
Outcomes == { Outcome(0, 0), Outcome(BATCH_SIZE, BATCH_SIZE \div 2) }

Columns ==
    { "train_loss", "train_top1_accuracy", "train_top5_accuracy",
      "val_loss", "val_top1_accuracy", "val_top5_accuracy",
      "test_loss", "test_top1_accuracy", "test_top5_accuracy" }

\* the order of the steps of one epoch
EpochOrder ==
    << "TRAIN_PHASE", "TRAIN_LOG", "VAL_PHASE", "VAL_LOG", "CHECKPOINT_DECISION",
       "LR_STEP", "TEST_PHASE", "TEST_LOG", "PERSIST_STATS" >>

VARIABLES
    pc,               \* position of the control thread
    NUM_EPOCH,        \* opt.num_epochs
    nTrain, nVal, nTest,   \* number of batches of train_loader, val_loader, test_loader
    epoch,            \* state['epoch'] of engine.train
    t,                \* batches consumed of the iterator of the running pass
    meter_loss,       \* AverageValueMeter: [sum, n]
    meter_accuracy,   \* ClassErrorMeter(topk=[1, 5], accuracy=True): [err1, err5, n]
    meter_confusion,  \* ConfusionMeter: examples on / off the diagonal
    results,          \* the dict of nine lists
    best_accuracy,    \* global best_accuracy
    checkpoint,       \* <<parameters>> held by epochs/{}_{}.pth, or NoCheckpoint
    ckpt_writes,      \* number of torch.save calls
    scheduler,        \* ReduceLROnPlateau: [best, num_bad_epochs, last_epoch]
    lr,               \* optimizer.param_groups[0]['lr']
    sched_arg,        \* argument of the latest scheduler.step call
    params,           \* model parameters, as the number of optimizer steps applied
    model_training,   \* model.training, set by model.train(training)
    grad_enabled,     \* FALSE inside "with torch.no_grad()"
    stats_file,       \* rows of statistics/{}_{}_results.csv
    stats_writes,     \* number of to_csv calls
    logged,           \* points sent to the loss logger per series
    trace,            \* steps of the current epoch, in the order they were taken
    passLog,          \* outcomes of the batches of the running pass, in order
    paramsAtTrainEnd, \* params when the latest training pass ended
    NUM_CLASS,        \* len(train_set.label2index): width of the model's output
    device_ids,       \* [int(gpu) for gpu in GPU_IDS.split(',')]
    device_count,     \* torch.cuda.device_count() of the machine
    ckpt_epoch,       \* state['epoch'] at the latest torch.save call
    error,            \* type of the uncaught exception that ended the run, or NoError
    hooks,            \* number of calls of each hook registered with the engine
    twin              \* a second run fed the same training and validation batches

vars ==
    << pc, NUM_EPOCH, nTrain, nVal, nTest, epoch, t, meter_loss, meter_accuracy,
       meter_confusion, results, best_accuracy, checkpoint, ckpt_writes, scheduler,
       lr, sched_arg, params, model_training, grad_enabled, stats_file, stats_writes,
       logged, trace, passLog, paramsAtTrainEnd, NUM_CLASS, device_ids, device_count,
       ckpt_epoch, error, hooks, twin >>

config == << NUM_EPOCH, nTrain, nVal, nTest, NUM_CLASS, device_ids, device_count >>
meters == << meter_loss, meter_accuracy, meter_confusion >>
ckptVars == << best_accuracy, checkpoint, ckpt_writes, ckpt_epoch >>
schedVars == << scheduler, lr, sched_arg >>
fileVars == << stats_file, stats_writes >>
\* what the single run leaves alone
solo == << twin >>
\* no second run
NoTwin == << >>

\* ---------------------------------------------------------------- meters
EmptyLoss == [sum |-> 0, n |-> 0]
EmptyAccuracy == [err1 |-> 0, err5 |-> 0, n |-> 0]
EmptyConfusion == [hit |-> 0, miss |-> 0]

\* meter_loss.add(state['loss'].item())
LossAdd(m, o) == [sum |-> m.sum + o.loss, n |-> m.n + 1]
\* meter_accuracy.add(output, target)
AccuracyAdd(m, o) ==
    [err1 |-> m.err1 + o.err1, err5 |-> m.err5 + o.err5, n |-> m.n + BATCH_SIZE]
\* meter_confusion.add(output, target)
ConfusionAdd(m, o) ==
    [hit |-> m.hit + (BATCH_SIZE - o.err1), miss |-> m.miss + o.err1]

\* meter_loss.value()[0]: the mean, nan when nothing was added
LossValue(m) == IF m.n = 0 THEN NaN ELSE Rat(m.sum, m.n)
\* meter_accuracy.value() divides by n: ZeroDivisionError when nothing was added
AccuracyRaises(m) == m.n = 0
\* meter_accuracy.value()[0] = (1 - err1 / n) * 100
Top1Value(m) == Rat(100 * (m.n - m.err1), m.n)
\* meter_accuracy.value()[1] = (1 - err5 / n) * 100
Top5Value(m) == Rat(100 * (m.n - m.err5), m.n)

\* ------------------------------------------------------------ the run
\* hooks registered with the engine (engine.hooks[...] = ...)
HookNames == { "on_sample", "on_forward", "on_start_epoch", "on_end_epoch" }
\* a hook is called
Fired(h, names) == [n \in HookNames |-> IF n \in names THEN h[n] + 1 ELSE h[n]]

\* what the script builds before the devices are looked at: the data
\* loaders, NUM_CLASS, the model, the optimizer and scheduler, the meters,
\* the empty results and best_accuracy = 0
Constructed ==
    /\ NUM_CLASS \in ClassCounts
    /\ nTrain \in 0..MaxTrainBatches
    /\ nVal \in 0..MaxValBatches
    /\ nTest \in 0..MaxTestBatches
    /\ epoch = 0
    /\ t = 0
    /\ meter_loss = EmptyLoss
    /\ meter_accuracy = EmptyAccuracy
    /\ meter_confusion = EmptyConfusion
    /\ results = [c \in Columns |-> << >>]
    /\ best_accuracy = Rat(0, 1)
    /\ checkpoint = NoCheckpoint
    /\ ckpt_writes = 0
    /\ scheduler = [best |-> Inf, num_bad_epochs |-> 0, last_epoch |-> 0]
    /\ lr = Rat(1, LrInitDen)
    /\ sched_arg = NaN
    /\ params = 0
    /\ model_training = TRUE
    /\ grad_enabled = TRUE
    /\ stats_file = << >>
    /\ stats_writes = 0
    /\ logged = [s \in {"train", "val", "test"} |-> 0]
    /\ trace = << >>
    /\ passLog = << >>
    /\ paramsAtTrainEnd = 0
    /\ ckpt_epoch = 0
    /\ error = NoError
    /\ hooks = [h \in HookNames |-> 0]

\* the state in which engine.train is entered on a machine that has the
\* devices of the default --gpu_ids
EngineEntered ==
    /\ pc = "loop"
    /\ NUM_EPOCH \in 0..MaxEpochs
    /\ device_ids = DefaultDeviceIds
    /\ device_count = Len(DefaultDeviceIds)
    /\ Constructed

Init ==
    /\ EngineEntered
    /\ twin = NoTwin

\* a loop test that is off by one
MoreEpochsInclusive(e, maxepoch) == e <= maxepoch

\* engine.train: "while state['epoch'] < state['maxepoch']"
MoreEpochs(e, maxepoch) == e < maxepoch

\* a reset that leaves the loss meter alone
ResetMetersButLoss ==
    /\ meter_accuracy' = EmptyAccuracy
    /\ meter_loss' = meter_loss
    /\ meter_confusion' = EmptyConfusion

\* reset_meters()
ResetMeters ==
    /\ meter_accuracy' = EmptyAccuracy
    /\ meter_loss' = EmptyLoss
    /\ meter_confusion' = EmptyConfusion

\* engine.train enters the loop body: hook on_start_epoch (reset_meters) and
\* the iteration over train_loader starts.
StartEpoch ==
    /\ pc = "loop"
    /\ MoreEpochs(epoch, NUM_EPOCH)
    /\ ResetMeters
    /\ t' = 0
    /\ passLog' = << >>
    /\ trace' = << "TRAIN_PHASE" >>
    /\ pc' = "train"
    /\ hooks' = Fired(hooks, {"on_start_epoch"})
    /\ UNCHANGED << config, error, epoch, results, ckptVars, schedVars, params,
                    model_training, grad_enabled, fileVars, logged, paramsAtTrainEnd >>

\* on_sample: state['sample'].append(state['train'])
SampleFlag(train) == train

\* on_forward: the three meters take the batch
OnForward(o) ==
    /\ meter_accuracy' = AccuracyAdd(meter_accuracy, o)
    /\ meter_confusion' = ConfusionAdd(meter_confusion, o)
    /\ meter_loss' = LossAdd(meter_loss, o)

\* an uncaught exception: the run is over
Abort(kind, unchanged) ==
    /\ pc' = "aborted"
    /\ error' = kind
    /\ UNCHANGED unchanged

\* meter_accuracy.add takes output.topk(5): a RuntimeError when the output
\* has fewer than five columns
TopKRaises(classes) == TopK > classes

\* One batch of engine.train: on_sample, processor (model.train(True),
\* forward, loss), loss.backward(), on_forward, optimizer.step().  The
\* forward pass yields one of the outcomes of outs.
TrainBatchOn(outs) ==
    /\ pc = "train"
    /\ t < nTrain
    /\ model_training' = SampleFlag(TRUE)
    /\ hooks' = Fired(hooks, {"on_sample", "on_forward"})
    /\ IF TopKRaises(NUM_CLASS)
       THEN Abort("RuntimeError",
                  << config, epoch, t, meters, results, ckptVars, schedVars, params,
                     grad_enabled, fileVars, logged, trace, passLog, paramsAtTrainEnd >>)
       ELSE /\ \E o \in outs :
                /\ OnForward(o)
                /\ passLog' = Append(passLog, o)
            /\ params' = params + 1
            /\ t' = t + 1
            /\ UNCHANGED << pc, config, error, epoch, results, ckptVars, schedVars,
                            grad_enabled, fileVars, logged, trace, paramsAtTrainEnd >>

TrainBatch == TrainBatchOn(Outcomes)

\* an evaluation pass run through engine.train: each batch is processed in
\* training mode and followed by an optimizer step
EvalBatchTrains(phase, n) ==
    /\ pc = phase
    /\ t < n
    /\ model_training' = SampleFlag(TRUE)
    /\ hooks' = Fired(hooks, {"on_sample", "on_forward"})
    /\ IF TopKRaises(NUM_CLASS)
       THEN Abort("RuntimeError",
                  << config, epoch, t, meters, results, ckptVars, schedVars, params,
                     grad_enabled, fileVars, logged, trace, passLog, paramsAtTrainEnd >>)
       ELSE /\ \E o \in Outcomes :
                /\ OnForward(o)
                /\ passLog' = Append(passLog, o)
            /\ params' = params + 1
            /\ t' = t + 1
            /\ UNCHANGED << pc, config, error, epoch, results, ckptVars, schedVars,
                            grad_enabled, fileVars, logged, trace, paramsAtTrainEnd >>

\* an evaluation pass that also calls the epoch-start hook, as a pass run
\* through engine.train does before its first batch
EvalBatchFiresEpochStart(phase, n) ==
    /\ pc = phase
    /\ t < n
    /\ model_training' = SampleFlag(FALSE)
    /\ hooks' = Fired(hooks, IF t = 0 THEN {"on_start_epoch", "on_sample", "on_forward"}
                                     ELSE {"on_sample", "on_forward"})
    /\ IF TopKRaises(NUM_CLASS)
       THEN /\ grad_enabled' = TRUE
            /\ Abort("RuntimeError",
                     << config, epoch, t, meters, results, ckptVars, schedVars, params,
                        fileVars, logged, trace, passLog, paramsAtTrainEnd >>)
       ELSE /\ \E o \in Outcomes :
                /\ OnForward(o)
                /\ passLog' = Append(passLog, o)
            /\ t' = t + 1
            /\ UNCHANGED << pc, config, error, epoch, results, ckptVars, schedVars,
                            params, grad_enabled, fileVars, logged, trace,
                            paramsAtTrainEnd >>

\* One batch of engine.test: on_sample, processor (model.train(False),
\* forward, loss), on_forward.  No backward, no optimizer step, and no
\* epoch hook.  The forward pass yields one of the outcomes of outs.
EvalBatchOn(phase, n, outs) ==
    /\ pc = phase
    /\ t < n
    /\ model_training' = SampleFlag(FALSE)
    /\ hooks' = Fired(hooks, {"on_sample", "on_forward"})
    /\ IF TopKRaises(NUM_CLASS)
       THEN /\ grad_enabled' = TRUE
            /\ Abort("RuntimeError",
                     << config, epoch, t, meters, results, ckptVars, schedVars, params,
                        fileVars, logged, trace, passLog, paramsAtTrainEnd >>)
       ELSE /\ \E o \in outs :
                /\ OnForward(o)
                /\ passLog' = Append(passLog, o)
            /\ t' = t + 1
            /\ UNCHANGED << pc, config, error, epoch, results, ckptVars, schedVars,
                            params, grad_enabled, fileVars, logged, trace,
                            paramsAtTrainEnd >>

EvalBatch(phase, n) == EvalBatchOn(phase, n, Outcomes)

ValBatch == EvalBatch("val", nVal)
TestBatch == EvalBatch("test", nTest)

\* where an exception of a batch is raised: in the loader while the batch is
\* fetched, in processor before model.train(training) (lines 21-23), or in
\* processor after it (lines 27-28)
RaiseSites == { "fetch", "to_device", "forward" }

\* an exception handler that saves the model before the run ends
BatchRaiseSavesCheckpoint ==
    /\ \/ pc = "train" /\ t < nTrain
       \/ pc = "val" /\ t < nVal
       \/ pc = "test" /\ t < nTest
    /\ checkpoint' = << params >>
    /\ ckpt_writes' = ckpt_writes + 1
    /\ ckpt_epoch' = epoch
    /\ \E site \in RaiseSites :
        /\ hooks' = IF site = "fetch" THEN hooks ELSE Fired(hooks, {"on_sample"})
        /\ model_training' = IF site = "forward"
                             THEN SampleFlag(pc = "train") ELSE model_training
    /\ grad_enabled' = TRUE
    /\ Abort("Exception",
             << config, epoch, t, meters, results, best_accuracy, schedVars, params,
                fileVars, logged, trace, passLog, paramsAtTrainEnd >>)

\* An exception raised while a batch is fetched or processed: nothing catches
\* it, the interpreter exits.  Raised by the loader, no hook has been called
\* for the batch; raised in processor, on_sample has been called, and from
\* line 27 on model.train(training) has set the flag.  The exception leaves
\* the "with torch.no_grad()" block of an evaluation pass.
BatchRaise ==
    /\ \/ pc = "train" /\ t < nTrain
       \/ pc = "val" /\ t < nVal
       \/ pc = "test" /\ t < nTest
    /\ \E site \in RaiseSites :
        /\ hooks' = IF site = "fetch" THEN hooks ELSE Fired(hooks, {"on_sample"})
        /\ model_training' = IF site = "forward"
                             THEN SampleFlag(pc = "train") ELSE model_training
    /\ grad_enabled' = TRUE
    /\ Abort("Exception",
             << config, epoch, t, meters, results, ckptVars, schedVars, params,
                fileVars, logged, trace, passLog, paramsAtTrainEnd >>)

\* a recording that forgets the top-5 column
RecordPhaseWithoutTop5(res, phase, ml, ma) ==
    [res EXCEPT ![phase \o "_loss"] = Append(@, LossValue(ml)),
                ![phase \o "_top1_accuracy"] = Append(@, Top1Value(ma))]

\* a recording that puts the newest entry first (insert(0, ...))
RecordPhaseNewestFirst(res, phase, ml, ma) ==
    [res EXCEPT ![phase \o "_loss"] = << LossValue(ml) >> \o @,
                ![phase \o "_top1_accuracy"] = << Top1Value(ma) >> \o @,
                ![phase \o "_top5_accuracy"] = << Top5Value(ma) >> \o @]

\* results[...].append(...) of one phase: loss, top-1 and top-5 accuracy
RecordPhase(res, phase, ml, ma) ==
    [res EXCEPT ![phase \o "_loss"] = Append(@, LossValue(ml)),
                ![phase \o "_top1_accuracy"] = Append(@, Top1Value(ma)),
                ![phase \o "_top5_accuracy"] = Append(@, Top5Value(ma))]

\* The train iterator is exhausted: engine.train does state['epoch'] += 1 and
\* calls on_end_epoch, whose first part logs and records the training metrics,
\* resets the meters and enters "with torch.no_grad(): engine.test(val_loader)".
TrainLog ==
    /\ pc = "train"
    /\ t = nTrain
    /\ epoch' = epoch + 1
    /\ logged' = [logged EXCEPT !["train"] = @ + 1]
    /\ paramsAtTrainEnd' = params
    /\ hooks' = Fired(hooks, {"on_end_epoch"})
    /\ IF AccuracyRaises(meter_accuracy)
       THEN Abort("ZeroDivisionError", << config, t, meters, results, ckptVars, schedVars, params,
                     model_training, grad_enabled, fileVars, trace, passLog >>)
       ELSE /\ results' = RecordPhase(results, "train", meter_loss, meter_accuracy)
            /\ ResetMeters
            /\ grad_enabled' = FALSE
            /\ t' = 0
            /\ passLog' = << >>
            /\ trace' = trace \o << "TRAIN_LOG", "VAL_PHASE" >>
            /\ pc' = "val"
            /\ UNCHANGED << config, error, ckptVars, schedVars, params, model_training, fileVars >>

\* engine.test(val_loader) returns and the no_grad block is left; the
\* validation metrics are logged and recorded.
ValLog ==
    /\ pc = "val"
    /\ t = nVal
    /\ grad_enabled' = TRUE
    /\ logged' = [logged EXCEPT !["val"] = @ + 1]
    /\ IF AccuracyRaises(meter_accuracy)
       THEN Abort("ZeroDivisionError", << config, hooks, epoch, t, meters, results, ckptVars, schedVars, params,
                     model_training, fileVars, trace, passLog, paramsAtTrainEnd >>)
       ELSE /\ results' = RecordPhase(results, "val", meter_loss, meter_accuracy)
            /\ trace' = Append(trace, "VAL_LOG")
            /\ pc' = "ckpt"
            /\ UNCHANGED << config, error, hooks, epoch, t, meters, ckptVars, schedVars, params,
                            model_training, fileVars, passLog, paramsAtTrainEnd >>

\* a comparison that also saves on a tie
ShouldSaveOnTie(acc, best) == ~RatLT(acc, best)

\* "if meter_accuracy.value()[0] > best_accuracy"
ShouldSave(acc, best) == RatLT(best, acc)

\* a decision whose update of best_accuracy is outside the "if"
CheckpointDecisionAlwaysUpdates ==
    /\ pc = "ckpt"
    /\ IF RatLT(best_accuracy, Top1Value(meter_accuracy))
       THEN /\ checkpoint' = << params >>
            /\ ckpt_writes' = ckpt_writes + 1
            /\ ckpt_epoch' = epoch
       ELSE UNCHANGED << checkpoint, ckpt_writes, ckpt_epoch >>
    /\ best_accuracy' = Top1Value(meter_accuracy)
    /\ trace' = Append(trace, "CHECKPOINT_DECISION")
    /\ pc' = "lr"
    /\ UNCHANGED << config, error, hooks, epoch, t, meters, results, schedVars, params, model_training,
                    grad_enabled, fileVars, logged, passLog, paramsAtTrainEnd >>

\* a decision whose torch.save is outside the "if"
CheckpointDecisionAlwaysSaves ==
    /\ pc = "ckpt"
    /\ checkpoint' = << params >>
    /\ ckpt_writes' = ckpt_writes + 1
    /\ ckpt_epoch' = epoch
    /\ best_accuracy' = IF ShouldSave(Top1Value(meter_accuracy), best_accuracy)
                        THEN Top1Value(meter_accuracy) ELSE best_accuracy
    /\ trace' = Append(trace, "CHECKPOINT_DECISION")
    /\ pc' = "lr"
    /\ UNCHANGED << config, error, hooks, epoch, t, meters, results, schedVars, params,
                    model_training, grad_enabled, fileVars, logged, passLog,
                    paramsAtTrainEnd >>

\* "# save best model": torch.save of the state dict (of model.module under
\* DataParallel, of model otherwise: the same parameters), then the update
\* of best_accuracy.
CheckpointDecision ==
    /\ pc = "ckpt"
    /\ IF ShouldSave(Top1Value(meter_accuracy), best_accuracy)
       THEN /\ checkpoint' = << params >>
            /\ ckpt_writes' = ckpt_writes + 1
            /\ ckpt_epoch' = epoch
            /\ best_accuracy' = Top1Value(meter_accuracy)
       ELSE UNCHANGED ckptVars
    /\ trace' = Append(trace, "CHECKPOINT_DECISION")
    /\ pc' = "lr"
    /\ UNCHANGED << config, error, hooks, epoch, t, meters, results, schedVars, params, model_training,
                    grad_enabled, fileVars, logged, passLog, paramsAtTrainEnd >>

\* ReduceLROnPlateau.is_better, mode 'min', threshold_mode 'rel':
\* a < best * (1 - threshold)
IsBetter(a, best) ==
    a.num * best.den * ThresholdDen < best.num * (ThresholdDen - 1) * a.den

\* a scheduler that reduces as soon as the count reaches the patience
SchedulerStepAtPatience(s, rate, metric) ==
    LET better == IsBetter(metric, s.best)
        bad == IF better THEN 0 ELSE s.num_bad_epochs + 1
        reduce == bad >= Patience
        applies == rate.num * (FactorDen - 1) * EpsDen > rate.den * FactorDen
    IN  [sched |-> [best |-> IF better THEN metric ELSE s.best,
                    num_bad_epochs |-> IF reduce THEN 0 ELSE bad,
                    last_epoch |-> s.last_epoch + 1],
         lr |-> IF reduce /\ applies THEN Rat(rate.num, rate.den * FactorDen) ELSE rate]

\* ReduceLROnPlateau.step(metrics) with cooldown 0 and min_lr 0, and
\* _reduce_lr: the new rate is applied when old - new > eps.
SchedulerStep(s, rate, metric) ==
    LET better == IsBetter(metric, s.best)
        bad == IF better THEN 0 ELSE s.num_bad_epochs + 1
        reduce == bad > Patience
        applies == rate.num * (FactorDen - 1) * EpsDen > rate.den * FactorDen
    IN  [sched |-> [best |-> IF better THEN metric ELSE s.best,
                    num_bad_epochs |-> IF reduce THEN 0 ELSE bad,
                    last_epoch |-> s.last_epoch + 1],
         lr |-> IF reduce /\ applies THEN Rat(rate.num, rate.den * FactorDen) ELSE rate]

\* a scheduler fed with the training loss of the epoch
SchedulerInputTrainLoss == results["train_loss"][epoch]

\* a scheduler fed with the latest test loss once there is one
SchedulerInputLatestTestLoss ==
    IF epoch > 1 THEN results["test_loss"][epoch - 1] ELSE LossValue(meter_loss)

\* the argument of "scheduler.step(meter_loss.value()[0])"
SchedulerInput == LossValue(meter_loss)

\* scheduler.step on the validation loss, reset_meters, and
\* "with torch.no_grad(): engine.test(test_loader)" is entered.
LRStep ==
    /\ pc = "lr"
    /\ LET r == SchedulerStep(scheduler, lr, SchedulerInput)
       IN  /\ scheduler' = r.sched
           /\ lr' = r.lr
    /\ sched_arg' = SchedulerInput
    /\ ResetMeters
    /\ grad_enabled' = FALSE
    /\ t' = 0
    /\ passLog' = << >>
    /\ trace' = trace \o << "LR_STEP", "TEST_PHASE" >>
    /\ pc' = "test"
    /\ UNCHANGED << config, error, hooks, epoch, results, ckptVars, params, model_training, fileVars,
                    logged, paramsAtTrainEnd >>

\* engine.test(test_loader) returns and the no_grad block is left; the test
\* metrics are logged and recorded.
TestLog ==
    /\ pc = "test"
    /\ t = nTest
    /\ grad_enabled' = TRUE
    /\ logged' = [logged EXCEPT !["test"] = @ + 1]
    /\ IF AccuracyRaises(meter_accuracy)
       THEN Abort("ZeroDivisionError", << config, hooks, epoch, t, meters, results, ckptVars, schedVars, params,
                     model_training, fileVars, trace, passLog, paramsAtTrainEnd >>)
       ELSE /\ results' = RecordPhase(results, "test", meter_loss, meter_accuracy)
            /\ trace' = Append(trace, "TEST_LOG")
            /\ pc' = "persist"
            /\ UNCHANGED << config, error, hooks, epoch, t, meters, ckptVars, schedVars, params,
                            model_training, fileVars, passLog, paramsAtTrainEnd >>

\* a frame that leaves out the epoch that just ended
DataFrameWithoutLatest(res, e) ==
    [i \in 1..(e - 1) |-> [index |-> i, data |-> [c \in Columns |-> res[c][i]]]]

\* pd.DataFrame(data=results, index=range(1, state['epoch'] + 1)): one row
\* per index entry; a column whose length differs from the index is a ValueError
DataFrameRaises(res, e) == \E c \in Columns : Len(res[c]) # e
DataFrame(res, e) ==
    [i \in 1..e |-> [index |-> i, data |-> [c \in Columns |-> res[c][i]]]]

\* statistics appended to the file (to_csv(..., mode='a'))
PersistStatsAppends ==
    /\ pc = "persist"
    /\ IF DataFrameRaises(results, epoch)
       THEN Abort("ValueError", << config, hooks, epoch, t, meters, results, ckptVars, schedVars, params,
                     model_training, grad_enabled, fileVars, logged, trace, passLog,
                     paramsAtTrainEnd >>)
       ELSE /\ stats_file' = stats_file \o DataFrame(results, epoch)
            /\ stats_writes' = stats_writes + 1
            /\ trace' = Append(trace, "PERSIST_STATS")
            /\ pc' = "loop"
            /\ UNCHANGED << config, error, hooks, epoch, t, meters, results, ckptVars, schedVars,
                            params, model_training, grad_enabled, logged, passLog,
                            paramsAtTrainEnd >>

\* statistics written only once the last epoch is over
PersistStatsAtLastEpoch ==
    /\ pc = "persist"
    /\ IF epoch = NUM_EPOCH
       THEN /\ stats_file' = DataFrame(results, epoch)
            /\ stats_writes' = stats_writes + 1
            /\ trace' = Append(trace, "PERSIST_STATS")
       ELSE UNCHANGED << fileVars, trace >>
    /\ pc' = "loop"
    /\ UNCHANGED << config, error, hooks, epoch, t, meters, results, ckptVars, schedVars,
                    params, model_training, grad_enabled, logged, passLog,
                    paramsAtTrainEnd >>

\* "# save statistics at each epoch": the frame of the whole history is
\* written over the csv file.
PersistStats ==
    /\ pc = "persist"
    /\ IF DataFrameRaises(results, epoch)
       THEN Abort("ValueError", << config, hooks, epoch, t, meters, results, ckptVars, schedVars, params,
                     model_training, grad_enabled, fileVars, logged, trace, passLog,
                     paramsAtTrainEnd >>)
       ELSE /\ stats_file' = DataFrame(results, epoch)
            /\ stats_writes' = stats_writes + 1
            /\ trace' = Append(trace, "PERSIST_STATS")
            /\ pc' = "loop"
            /\ UNCHANGED << config, error, hooks, epoch, t, meters, results, ckptVars, schedVars,
                            params, model_training, grad_enabled, logged, passLog,
                            paramsAtTrainEnd >>

\* The while loop of engine.train ends (no on_end hook is registered),
\* engine.train returns and the script is over.
Halt ==
    /\ pc = "loop"
    /\ ~MoreEpochs(epoch, NUM_EPOCH)
    /\ pc' = "done"
    /\ UNCHANGED << config, error, hooks, epoch, t, meters, results, ckptVars, schedVars, params,
                    model_training, grad_enabled, fileVars, logged, trace, passLog,
                    paramsAtTrainEnd >>

Next ==
    \/ StartEpoch /\ UNCHANGED solo
    \/ TrainBatch /\ UNCHANGED solo
    \/ BatchRaise /\ UNCHANGED solo
    \/ TrainLog /\ UNCHANGED solo
    \/ ValBatch /\ UNCHANGED solo
    \/ ValLog /\ UNCHANGED solo
    \/ CheckpointDecision /\ UNCHANGED solo
    \/ LRStep /\ UNCHANGED solo
    \/ TestBatch /\ UNCHANGED solo
    \/ TestLog /\ UNCHANGED solo
    \/ PersistStats /\ UNCHANGED solo
    \/ Halt /\ UNCHANGED solo

Spec == Init /\ [][Next]_vars

\* ---------------------------------------------------------- startup
\* largest number of devices requested or present, and the longest run
\* followed after a startup
MaxDevices == 2
StartupEpochs == 1

\* --gpu_ids naming the first n devices: << 0, ..., n-1 >>
DeviceLists == { [i \in 1..n |-> i - 1] : n \in 1..MaxDevices }

\* "model = model.to(device_ids[0])" on a machine that has no such device
ToDeviceRaises(ids, count) == ids[1] >= count

\* a test that only asks for some device to be present
EnoughDevicesIfAny(ids, count) == count > 0

\* "torch.cuda.device_count() >= len(device_ids)"
EnoughDevices(ids, count) == count >= Len(ids)

\* The device part of __main__: the model is moved to the first device and,
\* when several devices are requested, wrapped in DataParallel if the machine
\* has that many, else ValueError("there is no so many gpus.").
Startup ==
    /\ pc = "startup"
    /\ LET rest == << config, hooks, epoch, t, meters, results, ckptVars, schedVars,
                      params, model_training, grad_enabled, fileVars, logged, trace,
                      passLog, paramsAtTrainEnd >>
       IN  IF ToDeviceRaises(device_ids, device_count)
           THEN Abort("RuntimeError", rest)
           ELSE IF Len(device_ids) > 1 /\ ~EnoughDevices(device_ids, device_count)
                THEN Abort("ValueError", rest)
                ELSE pc' = "loop" /\ UNCHANGED << error, rest >>

\* the script before the devices are looked at, for every request and machine
InitStartup ==
    /\ pc = "startup"
    /\ NUM_EPOCH \in 0..StartupEpochs
    /\ device_ids \in DeviceLists
    /\ device_count \in 0..MaxDevices
    /\ Constructed
    /\ twin = NoTwin

StartupNext ==
    \/ Startup /\ UNCHANGED solo
    \/ Next

StartupSpec == InitStartup /\ [][StartupNext]_vars

\* ------------------------------------------- the scheduler over a long run
\* number of epochs of the long run
MaxSchedEpochs == 56

\* losses of the validation batches of the long run: a loss, a loss that is
\* lower by less than the relative threshold, and a loss that is lower by more
ValLosses == { 10000, 9999, 5000 }

\* a batch in which every example misses the top-1 prediction and half of
\* the examples also miss the top five
MissedBatch == Outcome(BATCH_SIZE, BATCH_SIZE \div 2)
\* such a batch, its cross-entropy loss being v
WithLoss(v) == [MissedBatch EXCEPT !.loss = v]

\* the validation loss recorded in an earlier epoch differs from the first
ValLossChanged ==
    \E i \in 1..Len(results["val_loss"]) :
        ~RatEq(results["val_loss"][i], results["val_loss"][1])

\* Validation data of the long run: the batches of one pass have the same
\* loss, and the loss of the pass changes at most once in the run.
SchedValOutcomes ==
    IF passLog # << >> THEN { passLog[1] }
    ELSE IF ValLossChanged
         THEN { WithLoss(v) : v \in { u \in ValLosses :
                    RatEq(Rat(u, 1), results["val_loss"][Len(results["val_loss"])]) } }
         ELSE { WithLoss(v) : v \in ValLosses }

\* the batches of the long run: training and test batches are all alike
SchedTrainBatch == TrainBatchOn({ MissedBatch })
SchedValBatch == EvalBatchOn("val", nVal, SchedValOutcomes)
SchedTestBatch == EvalBatchOn("test", nTest, { MissedBatch })

\* engine.train is entered for a run of MaxSchedEpochs epochs with the
\* largest loaders
InitSched ==
    /\ pc = "loop"
    /\ NUM_EPOCH = MaxSchedEpochs
    /\ device_ids = DefaultDeviceIds
    /\ device_count = Len(DefaultDeviceIds)
    /\ Constructed
    /\ nTrain = MaxTrainBatches /\ nVal = MaxValBatches /\ nTest = MaxTestBatches
    /\ twin = NoTwin

\* the run, on the batches of the long run
SchedNext ==
    \/ StartEpoch /\ UNCHANGED solo
    \/ SchedTrainBatch /\ UNCHANGED solo
    \/ BatchRaise /\ UNCHANGED solo
    \/ TrainLog /\ UNCHANGED solo
    \/ SchedValBatch /\ UNCHANGED solo
    \/ ValLog /\ UNCHANGED solo
    \/ CheckpointDecision /\ UNCHANGED solo
    \/ LRStep /\ UNCHANGED solo
    \/ SchedTestBatch /\ UNCHANGED solo
    \/ TestLog /\ UNCHANGED solo
    \/ PersistStats /\ UNCHANGED solo
    \/ Halt /\ UNCHANGED solo

SchedSpec == InitSched /\ [][SchedNext]_vars

\* ------------------------------------------------------ a second run
\* A second run of the same script on the same configuration, in step with
\* the first: it is fed the training and validation batches of the first run
\* and test batches of its own.  twin holds its meters and its control state.
TwinStart ==
    [meter_loss |-> EmptyLoss, meter_accuracy |-> EmptyAccuracy,
     best_accuracy |-> Rat(0, 1), checkpoint |-> NoCheckpoint, ckpt_writes |-> 0,
     scheduler |-> [best |-> Inf, num_bad_epochs |-> 0, last_epoch |-> 0],
     lr |-> Rat(1, LrInitDen), params |-> 0, diverged |-> FALSE]

\* the outcome of the batch the first run has just processed
Latest(log) == log[Len(log)]

\* reset_meters()
TwinReset(tw) ==
    [tw EXCEPT !.meter_loss = EmptyLoss, !.meter_accuracy = EmptyAccuracy]
\* on_forward
TwinForward(tw, o) ==
    [tw EXCEPT !.meter_loss = LossAdd(@, o), !.meter_accuracy = AccuracyAdd(@, o)]
\* optimizer.step() of engine.train
TwinOptimizerStep(tw) == [tw EXCEPT !.params = @ + 1]
\* "# save best model"
TwinDecide(tw) ==
    IF ShouldSave(Top1Value(tw.meter_accuracy), tw.best_accuracy)
    THEN [tw EXCEPT !.checkpoint = << tw.params >>,
                    !.ckpt_writes = @ + 1,
                    !.best_accuracy = Top1Value(tw.meter_accuracy)]
    ELSE tw
\* scheduler.step(meter_loss.value()[0])
TwinSchedule(tw) ==
    LET r == SchedulerStep(tw.scheduler, tw.lr, LossValue(tw.meter_loss))
    IN  [tw EXCEPT !.scheduler = r.sched, !.lr = r.lr]

\* Both runs take each step together.  Having consumed the same number of
\* batches their accuracy meters raise together; a run that an exception
\* ends no longer receives the batches of the other, and the pair is
\* followed no further.
TwinStartEpoch == StartEpoch /\ twin' = TwinReset(twin)
TwinTrainBatch ==
    /\ TrainBatch
    /\ twin' = IF pc' = "aborted" THEN twin
               ELSE TwinOptimizerStep(TwinForward(twin, Latest(passLog')))
TwinBatchRaise == BatchRaise /\ UNCHANGED solo
TwinTrainLog ==
    /\ TrainLog
    /\ twin' = IF pc' = "aborted" THEN twin ELSE TwinReset(twin)
TwinValBatch ==
    /\ ValBatch
    /\ twin' = IF pc' = "aborted" THEN twin ELSE TwinForward(twin, Latest(passLog'))
TwinValLog == ValLog /\ UNCHANGED solo
TwinCheckpointDecision == CheckpointDecision /\ twin' = TwinDecide(twin)
TwinLRStep == LRStep /\ twin' = TwinReset(TwinSchedule(twin))
\* the test batch of the second run has an outcome of its own
TwinTestBatch ==
    /\ TestBatch
    /\ \E o2 \in Outcomes :
         twin' = IF pc' = "aborted" THEN twin
                 ELSE [TwinForward(twin, o2) EXCEPT
                         !.diverged = @ \/ o2 # Latest(passLog')]
TwinTestLog == TestLog /\ UNCHANGED solo
TwinPersistStats == PersistStats /\ UNCHANGED solo
TwinHalt == Halt /\ UNCHANGED solo

InitTwin ==
    /\ EngineEntered
    /\ twin = TwinStart

TwinNext ==
    \/ TwinStartEpoch
    \/ TwinTrainBatch
    \/ TwinBatchRaise
    \/ TwinTrainLog
    \/ TwinValBatch
    \/ TwinValLog
    \/ TwinCheckpointDecision
    \/ TwinLRStep
    \/ TwinTestBatch
    \/ TwinTestLog
    \/ TwinPersistStats
    \/ TwinHalt

TwinSpec == InitTwin /\ [][TwinNext]_vars

\* ------------------------------------------------------------ properties
Prefix(seq, k) == SubSeq(seq, 1, k)
InHandler == pc \in {"val", "ckpt", "lr", "test", "persist"}

\* how far into EpochOrder the control thread is at each position
StepsTaken ==
    CASE pc = "train" -> 1
      [] pc = "val" -> 3
      [] pc = "ckpt" -> 4
      [] pc = "lr" -> 5
      [] pc = "test" -> 7
      [] pc = "persist" -> 8
      [] OTHER -> IF epoch = 0 THEN 0 ELSE 9

\* C1: in every epoch the steps training pass, training log, validation pass,
\* validation log, checkpoint decision, LR-scheduler step, test pass, test log
\* and persisting the statistics are taken once each and in this order, and
\* no step of the next epoch is taken before the statistics of the epoch are
\* persisted (the steps of epoch e+1 see e statistics writes).
C1_EpochStepOrder ==
    /\ \E k \in 0..Len(EpochOrder) : trace = Prefix(EpochOrder, k)
    /\ pc # "aborted" => trace = Prefix(EpochOrder, StepsTaken)
    /\ pc \in {"loop", "done", "train"} => stats_writes = epoch
    /\ InHandler => stats_writes = epoch - 1

C1_Witness ==
    pc = "done" /\ epoch = 2 /\ trace = EpochOrder /\ stats_writes = 2

\* the validation top-1 accuracies recorded so far
ValTop1 == results["val_top1_accuracy"]
\* number of checkpoint decisions taken so far
Decided == Len(ValTop1) - (IF pc = "ckpt" THEN 1 ELSE 0)

RECURSIVE BestOf(_, _)
\* the maximum of 0 and the first k entries of col
BestOf(col, k) == IF k = 0 THEN Rat(0, 1) ELSE RatMax(BestOf(col, k - 1), col[k])

\* the decisions whose accuracy was strictly above everything before it
Improvements == { e \in 1..Decided : RatLT(BestOf(ValTop1, e - 1), ValTop1[e]) }

\* C2: the checkpoint decision writes the checkpoint and sets best_accuracy to
\* the epoch's validation top-1 accuracy if and only if that accuracy is
\* strictly greater than best_accuracy; otherwise nothing is written or
\* updated; no other step writes, so there is at most one write per epoch and
\* the writes are exactly the strict improvements.
C2_CheckpointIffStrictlyBetter ==
    /\ [](ckpt_writes = Cardinality(Improvements) /\ ckpt_writes <= epoch)
    /\ [][ IF pc = "ckpt"
           THEN IF RatLT(best_accuracy, ValTop1[epoch])
                THEN /\ ckpt_writes' = ckpt_writes + 1
                     /\ checkpoint' = << params >>
                     /\ best_accuracy' = ValTop1[epoch]
                ELSE UNCHANGED << ckpt_writes, checkpoint, best_accuracy >>
           ELSE UNCHANGED << ckpt_writes, checkpoint, best_accuracy >> ]_vars

\* the second epoch repeats the first epoch's accuracy and writes nothing
C2_Witness ==
    /\ pc = "lr" /\ epoch = 2
    /\ RatEq(ValTop1[1], ValTop1[2]) /\ RatLT(Rat(0, 1), ValTop1[1])
    /\ ckpt_writes = 1

\* C3: best_accuracy starts at 0, never decreases, and always is the maximum
\* of 0 and the validation top-1 accuracies of the decisions taken so far.
C3_BestAccuracyIsRunningMax ==
    /\ [](RatEq(best_accuracy, BestOf(ValTop1, Decided)))
    /\ [][~RatLT(best_accuracy', best_accuracy)]_vars

\* the second epoch's accuracy is below the first one's and the best stays
C3_Witness ==
    /\ pc = "lr" /\ epoch = 2
    /\ RatLT(ValTop1[2], ValTop1[1])
    /\ RatEq(best_accuracy, ValTop1[1])

RECURSIVE PassSum(_, _)
\* the sum of field f over the outcomes of a pass
PassSum(log, f) == IF log = << >> THEN 0 ELSE log[1][f] + PassSum(Tail(log), f)

\* what the batches of a pass amount to: mean loss, accuracies, confusion
PassLoss(log) == IF log = << >> THEN NaN ELSE Rat(PassSum(log, "loss"), Len(log))
PassExamples(log) == Len(log) * BATCH_SIZE
PassTop1(log) == Rat(100 * (PassExamples(log) - PassSum(log, "err1")), PassExamples(log))
PassTop5(log) == Rat(100 * (PassExamples(log) - PassSum(log, "err5")), PassExamples(log))

\* C4: the scheduler is stepped once per epoch, by the step that follows the
\* checkpoint decision and starts the test pass, and its argument is the mean
\* loss of that epoch's validation pass (the recorded validation loss).
C4_SchedulerSteppedOnValLoss ==
    /\ [](/\ pc \in {"loop", "done", "train", "test", "persist"}
              => scheduler.last_epoch = epoch
          /\ pc \in {"val", "ckpt", "lr"} => scheduler.last_epoch = epoch - 1
          /\ pc \in {"test", "persist", "loop", "done"} /\ epoch > 0
              => sched_arg = results["val_loss"][epoch])
    /\ [][ << scheduler, lr, sched_arg >>' # << scheduler, lr, sched_arg >>
           => /\ pc = "lr" /\ trace[Len(trace)] = "CHECKPOINT_DECISION"
              /\ pc' = "test" /\ t' = 0
              /\ scheduler'.last_epoch = scheduler.last_epoch + 1
              /\ sched_arg' = PassLoss(passLog)
              /\ Len(passLog) = nVal ]_vars

\* a scheduler step whose validation loss differs from the training loss
C4_Witness ==
    /\ pc = "test" /\ epoch = 2
    /\ sched_arg = results["val_loss"][2]
    /\ ~RatEq(sched_arg, results["train_loss"][2])
    /\ ~RatEq(sched_arg, results["val_loss"][1])

\* C5: the meters hold exactly the batches of the running pass (nothing of an
\* earlier pass or epoch), so every value that is recorded is computed from the
\* batches of the pass that just ended.
C5_MetersHoldOnlyThePass ==
    /\ [](pc \in {"train", "val", "ckpt", "lr", "test", "persist"}
          => /\ meter_loss = [sum |-> PassSum(passLog, "loss"), n |-> Len(passLog)]
             /\ meter_accuracy = [err1 |-> PassSum(passLog, "err1"),
                                  err5 |-> PassSum(passLog, "err5"),
                                  n |-> PassExamples(passLog)]
             /\ meter_confusion.hit + meter_confusion.miss = PassExamples(passLog)
             /\ meter_confusion.miss = PassSum(passLog, "err1")
             /\ pc \in {"train", "val", "test"} => Len(passLog) = t)
    /\ [][ \A ph \in {"train", "val", "test"} :
             results'[ph \o "_loss"] # results[ph \o "_loss"]
             => /\ results'[ph \o "_loss"] = Append(results[ph \o "_loss"], PassLoss(passLog))
                /\ results'[ph \o "_top1_accuracy"]
                     = Append(results[ph \o "_top1_accuracy"], PassTop1(passLog))
                /\ results'[ph \o "_top5_accuracy"]
                     = Append(results[ph \o "_top5_accuracy"], PassTop5(passLog))
                /\ Len(passLog) = (CASE ph = "train" -> nTrain
                                     [] ph = "val" -> nVal
                                     [] ph = "test" -> nTest) ]_vars

\* the test pass of the second epoch is over and its loss differs from the
\* validation and the training loss of that epoch
C5_Witness ==
    /\ pc = "persist" /\ epoch = 2
    /\ ~RatEq(results["test_loss"][2], results["val_loss"][2])
    /\ ~RatEq(results["val_loss"][2], results["train_loss"][2])
    /\ Len(passLog) = nTest

\* C6: the validation and test passes leave the parameters alone: their
\* batches run with the training flag false, inside no_grad and without an
\* optimizer step, so during the whole epoch-end handling the parameters are
\* those the training pass ended with; only a training batch changes them.
C6_EvalLeavesParameters ==
    /\ [](/\ InHandler => params = paramsAtTrainEnd
          /\ pc \in {"val", "test"} => ~grad_enabled
          /\ pc \in {"val", "test"} /\ t > 0 => ~model_training)
    /\ [][ params' # params
           => /\ pc = "train" /\ pc' = "train"
              /\ t' = t + 1
              /\ params' = params + 1
              /\ model_training' /\ grad_enabled ]_vars

\* the test pass of the second epoch has processed its batches
C6_Witness ==
    /\ pc = "persist" /\ epoch = 2 /\ nTest > 0 /\ nVal > 0
    /\ params = 2 * nTrain /\ nTrain = 2
    /\ ~model_training

\* the table is looked at outside the epoch-end handling and where the
\* handler builds the data frame
ObservationPoint == pc \in {"loop", "train", "persist", "done"}

\* C7: at the observation points each of the nine columns of results holds
\* one entry per completed epoch (state['epoch']), no more and no fewer.
C7_OneRowPerCompletedEpoch ==
    ObservationPoint => \A c \in Columns : Len(results[c]) = epoch

C7_Witness ==
    pc = "persist" /\ epoch = 2 /\ \A c \in Columns : Len(results[c]) = 2

\* C8: once the statistics of epoch K are persisted the file holds K rows,
\* indexed 1..K in order, row e holding the nine values recorded in epoch e
\* (every value is appended at the position of the epoch it is recorded in);
\* each write replaces the whole file.
C8_FileHoldsOneRowPerEpoch ==
    /\ [](/\ Len(stats_file) = stats_writes
          /\ pc \in {"loop", "done"} => Len(stats_file) = epoch
          /\ \A e \in 1..Len(stats_file) :
               /\ stats_file[e].index = e
               /\ \A c \in Columns : stats_file[e].data[c] = results[c][e])
    /\ [][ \A c \in Columns :
             results'[c] # results[c]
             => /\ Len(results'[c]) = epoch'
                /\ Prefix(results'[c], Len(results[c])) = results[c] ]_vars

\* two epochs persisted, with different rows
C8_Witness ==
    /\ pc = "loop" /\ epoch = 2 /\ Len(stats_file) = 2
    /\ stats_file[1].data # stats_file[2].data

\* C9: a later write of the statistics file adds one row and leaves every
\* earlier row as it was.
C9_EarlierRowsUnchanged ==
    [][ stats_file' # stats_file
        => /\ Len(stats_file') = Len(stats_file) + 1
           /\ Prefix(stats_file', Len(stats_file)) = stats_file ]_vars

\* the file of epoch 1 has been replaced by the file of epoch 2
C9_Witness ==
    /\ stats_writes = 2 /\ Len(stats_file) = 2
    /\ stats_file[1].data["val_loss"] # stats_file[2].data["val_loss"]

\* ------------------------------------------------------------- liveness
\* The single control thread keeps running: a step that can be taken is taken.
LiveSpec == Init /\ [][Next]_vars /\ WF_vars(Next)

\* C10: a run that dies of no exception halts, after exactly NUM_EPOCH
\* epochs; no further epoch is started and once the last statistics are
\* persisted the only step is the end of the loop.
C10_HaltsAfterNumEpoch ==
    /\ <>(pc = "aborted" \/ (pc = "done" /\ epoch = NUM_EPOCH))
    /\ [](pc = "done" => epoch = NUM_EPOCH /\ stats_writes = NUM_EPOCH)
    /\ [](epoch <= NUM_EPOCH)
    /\ [][ /\ pc # "done"
           /\ pc = "loop" /\ stats_writes >= NUM_EPOCH
              => pc' = "done" /\ UNCHANGED << epoch, results, fileVars, ckptVars,
                                             schedVars, params, meters >> ]_vars

C10_Witness ==
    pc = "done" /\ NUM_EPOCH = 2 /\ epoch = 2 /\ stats_writes = 2

\* ------------------------------------------------------ crashes
\* the epochs whose statistics are persisted when the control thread is at pc
EpochsPersisted == IF InHandler THEN epoch - 1 ELSE epoch

\* C11: a crash inside epoch K+1 (in its training pass or anywhere in its
\* epoch-end handling) leaves the statistics file as it was persisted after
\* epoch K: the file is written by the persist step only, the step into the
\* crash does not touch it, and after the crash it holds exactly K rows, row
\* e being the row of epoch e.
C11_CrashLeavesPersistedFile ==
    /\ [][ pc' = "aborted"
           => /\ UNCHANGED fileVars
              /\ Len(stats_file) = EpochsPersisted ]_vars
    /\ [][ stats_file' # stats_file
           => pc = "persist" /\ pc' = "loop" /\ Len(stats_file') = epoch ]_vars
    /\ [](pc = "aborted"
          => /\ Len(stats_file) = stats_writes
             /\ \A e \in 1..Len(stats_file) :
                  /\ stats_file[e].index = e
                  /\ \A c \in Columns : stats_file[e].data[c] = results[c][e])

\* a crash in the second epoch after its validation metrics were recorded:
\* the file still is the one-row file of the first epoch
C11_Witness ==
    /\ pc = "aborted" /\ epoch = 2
    /\ Len(results["val_loss"]) = 2
    /\ Len(stats_file) = 1 /\ stats_writes = 1

\* C12 as stated: once an exception raised during a pass has ended the run,
\* the checkpoint on disk was written in an epoch that ran to completion (its
\* statistics are persisted).
C12_NoCheckpointOfUnfinishedEpoch ==
    pc = "aborted" /\ error = "Exception" /\ ckpt_writes > 0 => ckpt_epoch <= stats_writes

\* C12, amended: an exception ends the run at once: no step follows it (no
\* batch or epoch is retried) and the step into the crash writes no
\* checkpoint, no statistics and no parameter.  A checkpoint is written only
\* for an epoch whose training and validation passes ran to completion; the
\* checkpoint decision precedes the test pass, so the checkpoint of an epoch
\* whose test pass raises stays on disk.
C12_AbortWritesNothing ==
    /\ [][pc # "aborted"]_vars
    /\ [][ pc' = "aborted"
           => UNCHANGED << ckptVars, params, fileVars, results, t >> ]_vars
    /\ [](ckpt_writes > 0
          => /\ ckpt_epoch <= Len(ValTop1)
             /\ ckpt_epoch <= stats_writes + 1
             /\ pc = "aborted" /\ ckpt_epoch > stats_writes
                  => \E i \in 1..Len(trace) : trace[i] = "CHECKPOINT_DECISION")

\* the test pass of the first epoch raises after the checkpoint of that
\* epoch was written
C12_Witness ==
    /\ pc = "aborted" /\ error = "Exception"
    /\ trace[Len(trace)] = "TEST_PHASE"
    /\ ckpt_writes = 1 /\ ckpt_epoch = 1 /\ stats_writes = 0

\* C13: when more devices are requested than the machine has, the startup
\* step ends the run with an error; no hook has been called (no batch was
\* processed), the parameters are untouched, and neither the checkpoint nor the
\* statistics file is ever written.
C13_TooFewDevicesFailAtStartup ==
    /\ [][ pc = "startup" /\ Len(device_ids) > device_count
           => /\ pc' = "aborted" /\ error' # NoError
              /\ UNCHANGED << hooks, params, ckptVars, fileVars, results, epoch, t >> ]_vars
    /\ [](Len(device_ids) > device_count
          => /\ pc \in {"startup", "aborted"}
             /\ \A h \in HookNames : hooks[h] = 0
             /\ params = 0 /\ epoch = 0
             /\ ckpt_writes = 0 /\ checkpoint = NoCheckpoint
             /\ stats_writes = 0 /\ stats_file = << >>)

\* two devices requested on a machine with one: the ValueError of startup
C13_Witness ==
    /\ pc = "aborted" /\ error = "ValueError"
    /\ Len(device_ids) = 2 /\ device_count = 1
    /\ NUM_EPOCH > 0 /\ nTrain > 0

\* --------------------------------------------------- the toy scenario
\* 1 epoch on a 2-class dataset with 4 training, 2 validation and 2 test
\* examples in batches of 2
ToyScenario ==
    /\ NUM_CLASS = 2 /\ NUM_EPOCH = 1 /\ BATCH_SIZE = 2
    /\ nTrain * BATCH_SIZE = 4 /\ nVal * BATCH_SIZE = 2 /\ nTest * BATCH_SIZE = 2

\* a recorded loss is a number >= 0, a recorded accuracy lies in [0, 100]
LossPopulated(v) == v.den > 0 /\ v.num >= 0
AccuracyPopulated(v) == v.den > 0 /\ v.num >= 0 /\ v.num <= 100 * v.den

\* C14 as stated: the toy run, when no batch fails to load or compute, ends
\* completed with a statistics table of exactly one row, of index 1, whose
\* nine fields are populated (losses >= 0, accuracies within [0, 100]).
C14_ToyRunYieldsOneRow ==
    ToyScenario /\ pc \in {"done", "aborted"} /\ error # "Exception"
    => /\ pc = "done"
       /\ Len(stats_file) = 1
       /\ stats_file[1].index = 1
       /\ \A ph \in {"train", "val", "test"} :
            /\ LossPopulated(stats_file[1].data[ph \o "_loss"])
            /\ AccuracyPopulated(stats_file[1].data[ph \o "_top1_accuracy"])
            /\ AccuracyPopulated(stats_file[1].data[ph \o "_top5_accuracy"])

\* ------------------------------------------------- the loss meter
\* number of batches of the loader of a pass
PassLength(ph) ==
    CASE ph = "train" -> nTrain
      [] ph = "val" -> nVal
      [] ph = "test" -> nTest

\* C15 as stated: the loss meter's value is the arithmetic mean of the losses
\* added since the last reset, and when a pass ends, with batches or with
\* none (an empty loader: the meter is in its empty state), the handler goes
\* on with the meter's value: it records it as the loss of the pass, and the
\* validation loss is what the scheduler is stepped with.
C15_LossValueAlwaysUsable ==
    /\ [](pc \in {"train", "val", "test"} /\ meter_loss.n > 0
          => LossValue(meter_loss) = Rat(PassSum(passLog, "loss"), Len(passLog)))
    /\ [][ /\ pc \in {"train", "val", "test"} /\ t = PassLength(pc)
              => /\ pc' # "aborted"
                 /\ results'[pc \o "_loss"]
                      = Append(results[pc \o "_loss"], LossValue(meter_loss))
           /\ pc = "lr" => sched_arg' = LossValue(meter_loss) ]_vars

\* ------------------------------------------------------ the scheduler
\* the count of epochs since improvement after a step with loss v
BadAfter(v) == IF IsBetter(v, scheduler.best) THEN 0 ELSE scheduler.num_bad_epochs + 1

\* on a scheduler step (line 89) the best is replaced and the count cleared
\* on an improvement beyond the threshold, and the count is incremented
\* otherwise; no other step touches the scheduler
C16_CountFollowsImprovement ==
    IF pc = "lr"
    THEN /\ scheduler'.last_epoch = scheduler.last_epoch + 1
         /\ scheduler'.best = (IF IsBetter(sched_arg', scheduler.best)
                               THEN sched_arg' ELSE scheduler.best)
         /\ scheduler'.num_bad_epochs = (IF BadAfter(sched_arg') > Patience
                                         THEN 0 ELSE BadAfter(sched_arg'))
    ELSE scheduler' = scheduler

\* C16 as stated: the count follows the improvements, and the learning rate
\* is multiplied by 0.1 exactly when the count exceeds the patience.
C16_ReducedWheneverPatienceExceeded ==
    [][ /\ C16_CountFollowsImprovement
        /\ lr' = (IF pc = "lr" /\ BadAfter(sched_arg') > Patience
                  THEN Rat(lr.num, lr.den * FactorDen) ELSE lr) ]_vars

\* C16, amended: the count follows the improvements; when the count exceeds
\* the patience the count is reset, and the learning rate is multiplied by 0.1
\* only if that lowers it by more than eps = 1e-8, else it stays; it changes
\* at no other step, so it never falls below 1e-8.
C16_ReducedUnlessWithinEps ==
    /\ [][ /\ C16_CountFollowsImprovement
           /\ lr' = (IF /\ pc = "lr"
                        /\ BadAfter(sched_arg') > Patience
                        /\ lr.num * (FactorDen - 1) * EpsDen > lr.den * FactorDen
                     THEN Rat(lr.num, lr.den * FactorDen) ELSE lr) ]_vars
    /\ [](lr.num = 1 /\ lr.den >= LrInitDen /\ lr.den <= EpsDen)

\* the fifth plateau of a run whose loss never improved beyond the threshold:
\* the count exceeded the patience at epochs 12, 23, 34, 45 and 56, the rate
\* is 1e-8 since epoch 45 and the fifth reduction left it there
C16_Witness ==
    /\ scheduler.last_epoch = 5 * (Patience + 1) + 1
    /\ scheduler.best = Rat(10000, 1) /\ sched_arg = Rat(9999, 1)
    /\ scheduler.num_bad_epochs = 0
    /\ lr = Rat(1, EpsDen)

\* ------------------------------------------------------------ hooks
\* C17: the epoch-end hook is called once per training epoch, by the training
\* loop when its pass is over and never while the epoch-end handling is under
\* way; the epoch-start hook is called by the training loop only; the steps
\* of the validation and test passes call the per-batch hooks on_sample and
\* on_forward and no other hook (on_sample alone for a batch whose processing
\* raises and ends the run).
C17_EpochEndNotReentered ==
    /\ [](/\ hooks["on_end_epoch"] = epoch
          /\ pc = "train" => hooks["on_start_epoch"] = epoch + 1
          /\ pc \in {"loop", "done"} \/ InHandler => hooks["on_start_epoch"] = epoch
          /\ hooks["on_start_epoch"] \in {epoch, epoch + 1}
          /\ hooks["on_sample"] \in {hooks["on_forward"], hooks["on_forward"] + 1}
          /\ pc # "aborted" => hooks["on_sample"] = hooks["on_forward"])
    /\ [][ /\ hooks'["on_end_epoch"] # hooks["on_end_epoch"]
              => /\ pc = "train" /\ t = nTrain /\ ~InHandler
                 /\ hooks'["on_end_epoch"] = hooks["on_end_epoch"] + 1
           /\ hooks'["on_start_epoch"] # hooks["on_start_epoch"] => pc = "loop"
           /\ pc \in {"val", "test"} /\ hooks' # hooks
              => \/ hooks' = Fired(hooks, {"on_sample", "on_forward"})
                 \/ pc' = "aborted" /\ hooks' = Fired(hooks, {"on_sample"})
           /\ InHandler => hooks'["on_end_epoch"] = hooks["on_end_epoch"]
                           /\ hooks'["on_start_epoch"] = hooks["on_start_epoch"] ]_vars

\* both passes of the second epoch's handling have processed their batches
C17_Witness ==
    /\ pc = "persist" /\ epoch = 2 /\ nVal > 0 /\ nTest > 0
    /\ hooks["on_end_epoch"] = 2 /\ hooks["on_start_epoch"] = 2
    /\ hooks["on_sample"] = 2 * (nTrain + nVal + nTest)

\* ------------------------------------------- what the checkpoint holds
\* the earliest decided epoch whose validation top-1 accuracy is the best
BestEpoch ==
    CHOOSE e \in 1..Decided :
        /\ RatEq(ValTop1[e], best_accuracy)
        /\ \A f \in 1..(e - 1) : ~RatEq(ValTop1[f], best_accuracy)

\* C19: once a checkpoint decision has been taken, the checkpoint file exists
\* if and only if best_accuracy > 0; when it exists it was written in the
\* earliest epoch whose validation top-1 accuracy equals best_accuracy and
\* holds the parameters of the end of that epoch's training pass (the
\* parameters after BestEpoch * nTrain optimizer steps); a run whose
\* validation top-1 accuracy is 0 in every epoch never writes it.
C19_CheckpointIsEarliestBest ==
    Decided > 0
    => /\ (checkpoint # NoCheckpoint) <=> RatLT(Rat(0, 1), best_accuracy)
       /\ (ckpt_writes > 0) <=> (checkpoint # NoCheckpoint)
       /\ checkpoint # NoCheckpoint
            => /\ ckpt_epoch = BestEpoch
               /\ checkpoint = << BestEpoch * nTrain >>
       /\ (\A e \in 1..Decided : RatEq(ValTop1[e], Rat(0, 1)))
            => ckpt_writes = 0 /\ checkpoint = NoCheckpoint

\* the second epoch repeats the best accuracy of the first: the checkpoint
\* still holds the parameters of the first epoch, not the current ones
C19_Witness ==
    /\ pc = "persist" /\ epoch = 2 /\ nTrain = 2
    /\ RatEq(ValTop1[1], ValTop1[2]) /\ RatEq(ValTop1[1], best_accuracy)
    /\ checkpoint = << 2 >> /\ params = 4

\* ------------------------------------------ test data and control state
\* the control state of the first and of the second run
Control == << best_accuracy, checkpoint, ckpt_writes, scheduler, lr, params >>
TwinControl ==
    << twin.best_accuracy, twin.checkpoint, twin.ckpt_writes, twin.scheduler,
       twin.lr, twin.params >>

\* C20: two runs fed the same training and validation batches and different
\* test batches are, step for step, in the same control state: the same
\* best_accuracy, checkpoint and number of checkpoint writes, scheduler state,
\* learning rate and parameters.  Their meters agree through the training
\* pass, the validation pass, the checkpoint decision and the scheduler step;
\* only what the test pass measures differs (and nothing differs while the
\* test batches are the same).
C20_TestDataNeverReachesControl ==
    /\ TwinControl = Control
    /\ pc \in {"train", "val", "ckpt", "lr"} \/ ~twin.diverged
         => /\ twin.meter_loss = meter_loss
            /\ twin.meter_accuracy = meter_accuracy

\* the second epoch has written the checkpoint and stepped the scheduler on
\* an improved loss after the two runs saw different test batches in the
\* first epoch
C20_Witness ==
    /\ pc = "test" /\ epoch = 2 /\ t = 0
    /\ twin.diverged
    /\ ckpt_epoch = 2 /\ twin.checkpoint = checkpoint
    /\ scheduler.last_epoch = 2 /\ twin.scheduler.num_bad_epochs = 0

====
